---- MODULE Spec2Model ----
(***************************************************************************)
(* State-machine model of the wormhole-rhythm game engine (GameEngine and  *)
(* the Game component that drives it).                                     *)
(*                                                                         *)
(* Units.  Times are milliseconds.  Normalised screen coordinates (portal  *)
(* x, y, size) and speeds are scaled by 10000, so x = -0.1 is -1000 and    *)
(* 0.3 per second is 3000.  Whip coordinates are canvas pixels.            *)
(* extensionProgress is scaled by ProgressDen (tenths).  levelProgress is  *)
(* a percentage scaled by PctScale.  Date.now() is kept relative: a portal *)
(* carries untilTarget = targetTime - now, an effect and a timer carry the *)
(* time that remains, levelElapsed = now - levelStartTime.                 *)
(***************************************************************************)
EXTENDS Integers, Sequences, FiniteSets, TLC

VARIABLES
  gameState,          \* GameEngine.gameState
  currentLevelIndex,  \* GameEngine.currentLevelIndex
  portals,            \* GameEngine.portals
  activeWhips,        \* GameEngine.activeWhips
  visualEffects,      \* GameEngine.visualEffects
  timers,             \* pending setTimeout callbacks
  beatTimer,          \* GameEngine.beatTimer
  currentBeat,        \* GameEngine.currentBeat
  portalSpawnTimer,   \* GameEngine.portalSpawnTimer (ms)
  levelElapsed,       \* Date.now() - GameEngine.levelStartTime
  showSongSelect,     \* Game component: showSongSelect
  obs,                \* what the last step did (observation only)
  used,               \* how much of the exploration's budgets is used
  probe,              \* argument/result record of the pure-function checks
  loading,            \* GameEngine.init: progress of the asset loads
  consumer            \* Game component: its copy of the game state

vars == <<gameState, currentLevelIndex, portals, activeWhips, visualEffects,
          timers, beatTimer, currentBeat, portalSpawnTimer, levelElapsed,
          showSongSelect, obs, used, probe, loading, consumer>>

-----------------------------------------------------------------------------
(* Bounds of the exploration.                                               *)
(*   MaxClock   ms of frames taken in status playing or paused              *)
(*   MaxWhips   whips in flight at once                                     *)
(*   MaxEvents  beat spawns whose draw fails, pauses and restarts, together *)
(*   MaxDiff    largest time difference given to the timing judge (ms)      *)
(*   MaxCombo   largest combo given to the multiplier                       *)
(*   NumAudio   audio files that init loads                                 *)
(*   NumImages  image files that init loads                                 *)
(*   PairWhips  whips in flight when whips of different speeds are compared *)

MaxClock == 6500
LongClock == 8250
MaxWhips == 1
MaxEvents == 1
MaxDiff == 300
MaxCombo == 120
NumAudio == 2
NumImages == 2
PairWhips == 2

(* Inputs drawn by the environment: frame gaps, random draws, click targets *)
DeltaTimes == {250}
PortalTypes == {"snare"}
LaneDraws == {1}
JitterDraws == {0}
SpeedDraws == {8}
ControlOffsets == {0}
ClickTargets == {<<45, 50>>}
CursorSpeeds == {0}

-----------------------------------------------------------------------------
(* Program constants *)

CanvasWidth == 100
CanvasHeight == 100
ProgressDen == 10
PctScale == 90000
Epoch == 0 - 1
BeatInterval == 500

Levels ==
  << [id |-> 1, requiredHits |-> 10, portalSpeed |-> 3000, spawnRate10 |-> 5,
      timeLimit |-> 60, bonusScore |-> 1000,
      difficulty |-> "easy", music |-> "cosmic_theme_music.mp3"],
     [id |-> 2, requiredHits |-> 15, portalSpeed |-> 4000, spawnRate10 |-> 7,
      timeLimit |-> 75, bonusScore |-> 2000,
      difficulty |-> "normal", music |-> "rhythm_game_energetic.mp3"],
     [id |-> 3, requiredHits |-> 20, portalSpeed |-> 5000, spawnRate10 |-> 9,
      timeLimit |-> 90, bonusScore |-> 3000,
      difficulty |-> "hard", music |-> "epic_journey_music.mp3"] >>

LaneYPositions == <<3000, 5000, 7000>>

Min(a, b) == IF a <= b THEN a ELSE b
Max(a, b) == IF a >= b THEN a ELSE b
Abs(a) == IF a >= 0 THEN a ELSE 0 - a

HasLevel(idx) == idx >= 0 /\ idx < Len(Levels)
GetCurrentLevel(idx) == Levels[idx + 1]

GetPortalSize(type) ==
  CASE type = "bass" -> 800
    [] type = "snare" -> 600
    [] type = "hihat" -> 400
    [] OTHER -> 500

-----------------------------------------------------------------------------
(* Timing judge of the live hit path *)

(* the judge with its last window 50 ms too wide *)
JudgeTimingWide(timeDiff, beatMatch) ==
  IF beatMatch /\ timeDiff <= 100
  THEN LET q == IF timeDiff <= 30 THEN "perfect"
                ELSE IF timeDiff <= 60 THEN "great" ELSE "good"
       IN [quality |-> q,
           score |-> IF q = "perfect" THEN 1500
                     ELSE IF q = "great" THEN 1200 ELSE 900]
  ELSE LET q == IF timeDiff <= 30 THEN "perfect"
                ELSE IF timeDiff <= 60 THEN "great"
                ELSE IF timeDiff <= 100 THEN "good"
                ELSE IF timeDiff <= 250 THEN "hit" ELSE "miss"
       IN [quality |-> q,
           score |-> IF q = "perfect" THEN 1000
                     ELSE IF q = "great" THEN 800
                     ELSE IF q = "good" THEN 600
                     ELSE IF q = "hit" THEN 400 ELSE 0]

(* a live table whose perfect window is narrower than the utility's *)
JudgeTimingNarrow(timeDiff, beatMatch) ==
  LET q == IF timeDiff <= 10 THEN "perfect"
           ELSE IF timeDiff <= 60 THEN "great"
           ELSE IF timeDiff <= 100 THEN "good"
           ELSE IF timeDiff <= 200 THEN "hit" ELSE "miss"
  IN [quality |-> q,
      score |-> IF q = "perfect" THEN 1000
                ELSE IF q = "great" THEN 800
                ELSE IF q = "good" THEN 600
                ELSE IF q = "hit" THEN 400 ELSE 0]

(* PhysicsEngine.calculateTimingAccuracy on timeDiff = |actual - expected| *)
CalculateTimingAccuracy(timeDiff) ==
  IF timeDiff <= 15 THEN [accuracy |-> 100, quality |-> "perfect", tolerance |-> 15]
  ELSE IF timeDiff <= 30 THEN [accuracy |-> 90, quality |-> "great", tolerance |-> 30]
  ELSE IF timeDiff <= 50 THEN [accuracy |-> 80, quality |-> "good", tolerance |-> 50]
  ELSE IF timeDiff <= 100 THEN [accuracy |-> 60, quality |-> "hit", tolerance |-> 100]
  ELSE [accuracy |-> 0, quality |-> "miss", tolerance |-> 100]

JudgeTiming(timeDiff, beatMatch) ==
  IF beatMatch /\ timeDiff <= 100
  THEN LET q == IF timeDiff <= 30 THEN "perfect"
                ELSE IF timeDiff <= 60 THEN "great" ELSE "good"
       IN [quality |-> q,
           score |-> IF q = "perfect" THEN 1500
                     ELSE IF q = "great" THEN 1200 ELSE 900]
  ELSE LET q == IF timeDiff <= 30 THEN "perfect"
                ELSE IF timeDiff <= 60 THEN "great"
                ELSE IF timeDiff <= 100 THEN "good"
                ELSE IF timeDiff <= 200 THEN "hit" ELSE "miss"
       IN [quality |-> q,
           score |-> IF q = "perfect" THEN 1000
                     ELSE IF q = "great" THEN 800
                     ELSE IF q = "good" THEN 600
                     ELSE IF q = "hit" THEN 400 ELSE 0]

(* the multiplier without its cap *)
ComboMultiplierUncapped100(combo) == 100 + 2 * combo

(* comboMultiplier = Math.min(1 + combo * 0.02, 3), in hundredths *)
ComboMultiplier100(combo) == Min(100 + 2 * combo, 300)

(* The (baseScore, combo) pairs at which the IEEE-754 double product        *)
(* baseScore * comboMultiplier lies just below the exact integer value, so  *)
(* that Math.floor returns one less than the exact product.                 *)
RoundedDown ==
  ({1500} \X {8, 18, 59, 61, 63, 65, 84, 86}) \cup
  ({1200} \X {18, 19, 59, 61, 63, 84, 86, 88}) \cup
  ({900} \X {42, 59, 61, 63, 84}) \cup
  ({1000} \X {18, 42, 43, 59, 61, 84, 86}) \cup
  ({800} \X {8, 59, 61, 63, 65}) \cup
  ({600} \X {18, 19, 59, 61, 63, 84, 86, 88}) \cup
  ({400} \X {8, 59, 61, 63, 65})

(* finalScore = Math.floor(baseScore * comboMultiplier), as doubles compute it *)
FinalScore(baseScore, combo) ==
  (baseScore * ComboMultiplier100(combo)) \div 100
    - (IF <<baseScore, combo>> \in RoundedDown THEN 1 ELSE 0)

-----------------------------------------------------------------------------
(* The engine as one record e, so that the sequential code of a handler is  *)
(* a composition of operators:                                              *)
(*   gs, idx, portals, whips, effects, timers, beatTimer, currentBeat,      *)
(*   spawnTimer, levelElapsed, obs, now                                     *)

Merge(gs, updates) ==
  [f \in DOMAIN gs |-> IF f \in DOMAIN updates THEN updates[f] ELSE gs[f]]

(* onGameStateChange of the Game component: merge the partial update *)
OnGameStateChange(prev, updates) == Merge(prev, updates)

UpdateGameState(e, updates) ==
  [e EXCEPT !.gs = Merge(@, updates),
            !.ui = OnGameStateChange(@, updates)]

(* writes the two fields on this.gameState itself *)
UpdateCurrentLevel(e) ==
  IF HasLevel(e.idx)
  THEN [e EXCEPT !.gs.currentDifficulty = GetCurrentLevel(e.idx).difficulty,
                 !.gs.currentSong = GetCurrentLevel(e.idx).music]
  ELSE e

InitializeLevelSystem(e) == UpdateCurrentLevel([e EXCEPT !.idx = 0])

PushEffect(e, type, duration) ==
  [e EXCEPT !.effects = Append(@, [type |-> type, remaining |-> duration])]

(* setTimeout(callback, delay); entryLevel/entryScore/entryIdx are the game *)
(* state the callback was scheduled in (observation only)                   *)
SetTimeout(e, kind, delay) ==
  [e EXCEPT !.timers = Append(@, [kind |-> kind, remaining |-> delay,
                                  entryLevel |-> e.gs.level,
                                  entryScore |-> e.gs.score,
                                  entryIdx |-> e.idx])]

ZeroObs ==
  [hits |-> 0, misses |-> 0, base |-> 0, combo |-> 0, timer |-> "none",
   offBeat |-> 0, cue |-> "none", pulse |-> "none", spawnChance10 |-> 0,
   fired |-> 0]

(* an updateCombo that leaves maxCombo as it is *)
UpdateComboNoMax(e, increment) ==
  LET newCombo == Max(0, e.gs.combo + increment)
  IN UpdateGameState(e, [combo |-> newCombo])

UpdateCombo(e, increment) ==
  LET newCombo == Max(0, e.gs.combo + increment)
      maxCombo == Max(e.gs.maxCombo, newCombo)
  IN UpdateGameState(e, [combo |-> newCombo, maxCombo |-> maxCombo])

HandleScore(e, quality, baseScore) ==
  LET finalScore == FinalScore(baseScore, e.gs.combo)
      e1 == UpdateGameState(e, [score |-> e.gs.score + finalScore])
  IN UpdateCombo(e1, 1)

EndGame(e) == UpdateGameState(e, [status |-> "gameover"])

UpdateHealth(e, change) ==
  LET newHealth == Max(0, Min(100, e.gs.health + change))
      e1 == UpdateGameState(e, [health |-> newHealth])
  IN IF newHealth <= 0 THEN EndGame(e1) ELSE e1

(* No handler, timer or action of the engine calls handlePortalMiss. *)
HandlePortalMiss(e, portal) ==
  PushEffect(UpdateHealth(UpdateCombo(e, 0), 0 - 1), "particle", 500)

(* a level transition that schedules no proceedToNextLevel *)
TriggerLevelTransitionUnscheduled(e) ==
  IF e.gs.status # "playing" THEN e
  ELSE PushEffect(UpdateGameState(e, [status |-> "level_complete",
                                      transitionActive |-> TRUE]),
                  "level_transition", 3000)

TriggerLevelTransition(e) ==
  IF e.gs.status # "playing" THEN e
  ELSE LET e1 == UpdateGameState(e, [status |-> "level_complete",
                                     transitionActive |-> TRUE])
           e2 == PushEffect(e1, "level_transition", 3000)
       IN SetTimeout(e2, "proceed", 3000)

TriggerPortalTravel(e, portal) ==
  LET e1 == PushEffect(e, "portal_travel", 2000)
  IN IF HasLevel(e.idx) /\
        e.gs.portalsHit >= GetCurrentLevel(e.idx).requiredHits
     THEN SetTimeout(e1, "transition", 1000)
     ELSE e1

CreateHitEffect(e, portal, quality) == PushEffect(e, "portal_hit", 1000)

CheckLevelCompletionStrict(e) ==
  IF ~HasLevel(e.idx) THEN e
  ELSE LET req == GetCurrentLevel(e.idx).requiredHits
           e1 == UpdateGameState(e,
                   [levelProgress |-> (e.gs.portalsHit * 100 * PctScale) \div req])
       IN IF e.gs.portalsHit > req THEN TriggerLevelTransition(e1) ELSE e1

CheckLevelCompletion(e) ==
  IF ~HasLevel(e.idx) THEN e
  ELSE LET req == GetCurrentLevel(e.idx).requiredHits
           e1 == UpdateGameState(e,
                   [levelProgress |-> (e.gs.portalsHit * 100 * PctScale) \div req])
       IN IF e.gs.portalsHit >= req THEN TriggerLevelTransition(e1) ELSE e1

RemovePortal(ps, id) == SelectSeq(ps, LAMBDA p : p.id # id)

(* wi is the index of the whip in e.whips; the whip object is mutated in place *)
HandlePortalHit(e, portal, wi) ==
  LET timeDiff == Abs(portal.untilTarget)
      j == JudgeTiming(timeDiff, portal.beatMatch)
      judged == [e EXCEPT !.obs.offBeat =
                            IF portal.beatMatch THEN @ ELSE @ + 1]
  IN IF j.quality # "miss"
     THEN LET e1 == HandleScore(judged, j.quality, j.score)
              e2 == TriggerPortalTravel(e1, portal)
              e3 == CreateHitEffect(e2, portal, j.quality)
              e4 == UpdateGameState(e3,
                      [portalsHit |-> e3.gs.portalsHit + 1,
                       portalsTotal |-> e3.gs.portalsTotal + 1])
              e5 == CheckLevelCompletion(e4)
          IN [e5 EXCEPT !.portals = RemovePortal(@, portal.id),
                        !.whips[wi].hitDetection = FALSE,
                        !.whips[wi].hits = @ + 1,
                        !.obs = [@ EXCEPT !.hits = @ + 1, !.base = j.score,
                                          !.combo = e.gs.combo]]
     ELSE [judged EXCEPT !.obs.misses = @ + 1]

(* 100 * (quadratic Bezier at t = p / ProgressDen); c2 is twice the control *)
(* point coordinate                                                         *)
BezierPoint100(p, s, c2, t) ==
  (ProgressDen - p) * (ProgressDen - p) * s
    + (ProgressDen - p) * p * c2
    + p * p * t

GetWhipCurrentPosition100(whip) ==
  [x |-> BezierPoint100(whip.extensionProgress, whip.startX,
                        whip.controlX2, whip.targetX),
   y |-> BezierPoint100(whip.extensionProgress, whip.startY,
                        whip.controlY2, whip.targetY)]

IsWhipCollidingWithPortal(whip, portal) ==
  LET pos == GetWhipCurrentPosition100(whip)
      px == (portal.x * CanvasWidth) \div 100
      py == (portal.y * CanvasHeight) \div 100
      hitRadius == (portal.size * CanvasWidth * 8) \div 1000
      dx == pos.x - px
      dy == pos.y - py
  IN dx * dx + dy * dy < hitRadius * hitRadius

(* inner forEach of checkCollisions, over the portal array as it was when   *)
(* the loop started                                                         *)
RECURSIVE CollidePortals(_, _, _, _)
CollidePortals(e, wi, snapshot, j) ==
  IF j > Len(snapshot) THEN e
  ELSE LET portal == snapshot[j]
       IN IF portal.position = "active" /\
             IsWhipCollidingWithPortal(e.whips[wi], portal)
          THEN CollidePortals(HandlePortalHit(e, portal, wi), wi, snapshot, j + 1)
          ELSE CollidePortals(e, wi, snapshot, j + 1)

RECURSIVE CollideWhips(_, _)
CollideWhips(e, wi) ==
  IF wi > Len(e.whips) THEN e
  ELSE IF ~e.whips[wi].hitDetection THEN CollideWhips(e, wi + 1)
  ELSE CollideWhips(CollidePortals(e, wi, e.portals, 1), wi + 1)

(* a collision pass in which every whip tests the portals as they were when *)
(* the pass started                                                         *)
CheckCollisionsShared(e) ==
  LET RECURSIVE Pass(_, _)
      Pass(f, wi) ==
        IF wi > Len(f.whips) THEN f
        ELSE IF ~f.whips[wi].hitDetection THEN Pass(f, wi + 1)
        ELSE Pass(CollidePortals(f, wi, e.portals, 1), wi + 1)
  IN Pass(e, 1)

CheckCollisions(e) == CollideWhips(e, 1)

-----------------------------------------------------------------------------
(* Spawning and the per-tick update *)

NoDraw == [spawn |-> FALSE]
SpawnDraws ==
  [spawn : {TRUE}, type : PortalTypes, lane : LaneDraws,
   jitter : JitterDraws, speed10 : SpeedDraws]

(* id: `portal_${Date.now()}_${Math.random()}`, unique to the portal: twice  *)
(* the time of the spawn, plus one for the second portal of a tick          *)
FreshId(ps, now) ==
  IF \E k \in 1..Len(ps) : ps[k].id = 2 * now THEN 2 * now + 1 ELSE 2 * now

(* draw.speed10 is Math.random() in tenths, draw.jitter is                  *)
(* (Math.random() - 0.5) * 0.1 scaled by 10000                              *)
SpawnRandomPortal(e, draw) ==
  LET speed == IF HasLevel(e.idx) THEN GetCurrentLevel(e.idx).portalSpeed
               ELSE 3000
      newPortal ==
        [id |-> FreshId(e.portals, e.now),
         type |-> draw.type,
         x |-> 0 - 1000,
         y |-> LaneYPositions[draw.lane + 1] + draw.jitter,
         size |-> GetPortalSize(draw.type),
         speed |-> speed,
         horizontalSpeed |-> (speed * (10 + draw.speed10)) \div 20,
         untilTarget |-> 2000,
         position |-> "approach",
         isMoving |-> TRUE,
         travelLane |-> draw.lane,
         beatMatch |-> FALSE]
  IN [e EXCEPT !.portals = Append(@, newPortal)]

BeatType(beat) ==
  IF beat % 4 = 0 THEN "bass" ELSE IF beat % 2 = 0 THEN "snare" ELSE "hihat"

(* Math.random() < spawnChance is the draw's spawn flag: every spawnChance  *)
(* lies strictly between 0 and 1                                            *)
SpawnPortalOnBeat(e, draw) ==
  LET spawnChance10 == IF e.currentBeat % 4 = 0 THEN 8
                       ELSE IF e.currentBeat % 2 = 0 THEN 6 ELSE 3
      e1 == [e EXCEPT !.obs.spawnChance10 = spawnChance10]
  IN IF draw.spawn THEN SpawnRandomPortal(e1, draw) ELSE e1

(* audioEnabled is true, as constructed: the sound of the beat is played *)
PlayBeatSound(e) == [e EXCEPT !.obs.cue = BeatType(e.currentBeat)]

(* a pulse effect tagged with the category of the beat before *)
CreateBeatPulseEffectStale(e) ==
  LET n == e.currentBeat - 1
      beatType == IF n % 4 = 0 THEN "bass"
                  ELSE IF n % 2 = 0 THEN "snare" ELSE "hihat"
  IN [PushEffect(e, "beat_pulse", 300) EXCEPT !.obs.pulse = beatType]

CreateBeatPulseEffect(e) ==
  LET beatType == IF e.currentBeat % 4 = 0 THEN "bass"
                  ELSE IF e.currentBeat % 2 = 0 THEN "snare" ELSE "hihat"
  IN [PushEffect(e, "beat_pulse", 300) EXCEPT !.obs.pulse = beatType]

BeatDue(bt) == bt >= BeatInterval

UpdateBeatSystem(e, beatDraw) ==
  IF BeatDue(e.beatTimer)
  THEN LET e1 == [e EXCEPT !.beatTimer = 0, !.currentBeat = @ + 1]
       IN CreateBeatPulseEffect(SpawnPortalOnBeat(PlayBeatSound(e1), beatDraw))
  ELSE e

(* a portal move that leaves beatMatch as it was *)
MovePortalStaleBeat(p, dt) ==
  IF ~p.isMoving THEN p
  ELSE LET nx == p.x + (p.horizontalSpeed * dt) \div 1000
           pos == IF nx > 3000 /\ nx < 7000 THEN "active" ELSE "approach"
       IN IF nx > 12000 THEN [p EXCEPT !.x = nx]
          ELSE [p EXCEPT !.x = nx, !.position = pos]

MovePortal(p, dt) ==
  IF ~p.isMoving THEN p
  ELSE LET nx == p.x + (p.horizontalSpeed * dt) \div 1000
           pos == IF nx > 3000 /\ nx < 7000 THEN "active" ELSE "approach"
       IN IF nx > 12000 THEN [p EXCEPT !.x = nx]
          ELSE [p EXCEPT !.x = nx, !.position = pos,
                         !.beatMatch = (pos = "active")]

SpawnDue(e, dt) ==
  HasLevel(e.idx) /\
  (e.spawnTimer + dt) * GetCurrentLevel(e.idx).spawnRate10 >= 10000

(* a rate-based spawn that does not restart its timer *)
SpawnPortalsNoRestart(e, dt, rateDraw) ==
  IF ~HasLevel(e.idx) THEN e
  ELSE IF SpawnDue(e, dt)
       THEN SpawnRandomPortal(e, rateDraw)
       ELSE [e EXCEPT !.spawnTimer = @ + dt]

SpawnPortals(e, dt, rateDraw) ==
  IF ~HasLevel(e.idx) THEN e
  ELSE IF SpawnDue(e, dt)
       THEN SpawnRandomPortal([e EXCEPT !.spawnTimer = 0], rateDraw)
       ELSE [e EXCEPT !.spawnTimer = @ + dt]

(* the portal update without its off-screen removal *)
UpdateFroggerPortalsKeep(e, dt, rateDraw) ==
  LET moved == [k \in 1..Len(e.portals) |-> MovePortal(e.portals[k], dt)]
  IN SpawnPortals([e EXCEPT !.portals = moved], dt, rateDraw)

UpdateFroggerPortals(e, dt, rateDraw) ==
  LET moved == [k \in 1..Len(e.portals) |-> MovePortal(e.portals[k], dt)]
      kept == SelectSeq(moved, LAMBDA p : ~(p.isMoving /\ p.x > 12000))
  IN SpawnPortals([e EXCEPT !.portals = kept], dt, rateDraw)

(* a whip update that clamps at 1 and removes nothing *)
UpdateWhipsClamped(e, dt) ==
  [e EXCEPT !.whips =
     [k \in 1..Len(@) |->
        [@[k] EXCEPT
           !.extensionProgress =
              Min(@ + (dt * 2 * ProgressDen) \div 1000, ProgressDen)]]]

(* a whip update that keeps the whip clamped at 1 for one more tick *)
UpdateWhipsNextTick(e, dt) ==
  LET live == SelectSeq(e.whips, LAMBDA w : w.extensionProgress < ProgressDen)
  IN [e EXCEPT !.whips =
        [k \in 1..Len(live) |->
           [live[k] EXCEPT
              !.extensionProgress =
                 Min(@ + (dt * 2 * ProgressDen) \div 1000, ProgressDen)]]]

(* a whip update whose rate follows the velocity of the whip *)
UpdateWhipsByVelocity(e, dt) ==
  LET adv == [k \in 1..Len(e.whips) |->
                [e.whips[k] EXCEPT
                   !.extensionProgress =
                      @ + (dt * 2 * ProgressDen * e.whips[k].velocity)
                            \div 100000]]
  IN [e EXCEPT !.whips = SelectSeq(adv,
                   LAMBDA w : w.extensionProgress < ProgressDen)]

UpdateWhips(e, dt) ==
  LET adv == [k \in 1..Len(e.whips) |->
                [e.whips[k] EXCEPT
                   !.extensionProgress = @ + (dt * 2 * ProgressDen) \div 1000]]
  IN [e EXCEPT !.whips = SelectSeq(adv,
                   LAMBDA w : w.extensionProgress < ProgressDen)]

UpdateVisualEffects(e) ==
  [e EXCEPT !.effects = SelectSeq(@, LAMBDA f : f.remaining >= 0)]

UpdateLevelProgress(e) ==
  IF ~HasLevel(e.idx) \/ e.gs.status # "playing" THEN e
  ELSE LET lvl == GetCurrentLevel(e.idx)
           time07 == IF e.levelElapsed = Epoch THEN 100 * PctScale
                     ELSE e.levelElapsed * ((7 * PctScale) \div (100 * lvl.timeLimit))
           hitProgress == (e.gs.portalsHit * 100 * PctScale) \div lvl.requiredHits
           combinedProgress == Max(hitProgress, time07)
       IN UpdateGameState(e,
            [levelProgress |-> Min(combinedProgress, 100 * PctScale)])

Update(e, dt, beatDraw, rateDraw) ==
  LET e1 == [e EXCEPT !.beatTimer = @ + dt]
      e2 == UpdateBeatSystem(e1, beatDraw)
      e3 == UpdateFroggerPortals(e2, dt, rateDraw)
      e4 == UpdateWhips(e3, dt)
      e5 == UpdateVisualEffects(e4)
      e6 == CheckCollisions(e5)
  IN UpdateLevelProgress(e6)

-----------------------------------------------------------------------------
(* Commands *)

(* the trajectory of a new whip: start at the canvas centre, end at the     *)
(* target, control at their midpoint displaced by off; the control point is *)
(* kept doubled                                                             *)
Trajectory(target, off) ==
  LET cx == CanvasWidth \div 2
      cy == CanvasHeight \div 2
  IN [startX |-> cx, startY |-> cy,
      targetX |-> target[1], targetY |-> target[2],
      controlX2 |-> cx + target[1] + 2 * off[1],
      controlY2 |-> cy + target[2] + 2 * off[2]]

CreateWhip(e, target, off, cursorSpeed, isTouch) ==
  LET tr == Trajectory(target, off)
      speedFactor100 == Min((cursorSpeed * 100) \div 500, 200)
      newWhip ==
        [startX |-> tr.startX, startY |-> tr.startY,
         targetX |-> tr.targetX, targetY |-> tr.targetY,
         controlX2 |-> tr.controlX2,
         controlY2 |-> tr.controlY2,
         velocity |-> 50 + speedFactor100 \div 2,
         isActive |-> TRUE,
         extensionProgress |-> 0,
         createdTime |-> e.now,
         hitDetection |-> TRUE,
         hits |-> 0]
      e1 == [e EXCEPT !.whips = Append(@, newWhip)]
      e2 == IF isTouch THEN PushEffect(e1, "particle", 300) ELSE e1
  IN PushEffect(e2, "wave_trail", 1000)

(* fireWhip without the status guard of its first line *)
FireWhipAnywhere(e, target, off, cursorSpeed, isTouch) ==
  LET e0 == [e EXCEPT !.obs.fired = @ + 1]
  IN CreateWhip(e0, target, off, cursorSpeed, isTouch)

FireWhip(e, target, off, cursorSpeed, isTouch) ==
  LET e0 == [e EXCEPT !.obs.fired = @ + 1]
  IN IF e0.gs.status # "playing" THEN e0
     ELSE CreateWhip(e0, target, off, cursorSpeed, isTouch)

ProceedToNextLevel(e) ==
  LET e1 == IF HasLevel(e.idx)
            THEN UpdateGameState(e,
                   [score |-> e.gs.score + GetCurrentLevel(e.idx).bonusScore,
                    level |-> e.gs.level + 1])
            ELSE e
      e2 == [e1 EXCEPT !.idx = @ + 1]
  IN IF e2.idx < Len(Levels)
     THEN [UpdateCurrentLevel(
             UpdateGameState(e2, [status |-> "playing",
                                  transitionActive |-> FALSE,
                                  portalsHit |-> 0,
                                  portalsTotal |-> 0]))
             EXCEPT !.portals = <<>>, !.levelElapsed = 0]
     ELSE UpdateGameState(e2, [status |-> "gameover"])

StartGame(e) ==
  [UpdateGameState(e, [status |-> "playing",
                       levelProgress |-> 0,
                       portalsHit |-> 0,
                       portalsTotal |-> 0,
                       transitionActive |-> FALSE])
     EXCEPT !.levelElapsed = 0, !.currentBeat = 0, !.beatTimer = 0,
            !.portals = <<>>, !.whips = <<>>, !.effects = <<>>]

PauseGame(e) == UpdateGameState(e, [status |-> "paused"])
ResumeGame(e) == UpdateGameState(e, [status |-> "playing"])

(* a toggle that pauses from every status but paused *)
TogglePauseAnywhere(e) ==
  IF e.gs.status = "paused" THEN ResumeGame(e) ELSE PauseGame(e)

TogglePause(e) ==
  IF e.gs.status = "playing" THEN PauseGame(e)
  ELSE IF e.gs.status = "paused" THEN ResumeGame(e)
  ELSE e

InitialGameState ==
  [status |-> "menu", score |-> 0, combo |-> 0, health |-> 100, level |-> 1,
   currentSong |-> "cosmic_journey", maxCombo |-> 0, levelProgress |-> 0,
   portalsHit |-> 0, portalsTotal |-> 0, currentDifficulty |-> "easy",
   transitionActive |-> FALSE]

(* the object restartGame assigns to this.gameState: the spread keeps the   *)
(* fields that are not listed, then updateCurrentLevel writes its two       *)
RestartedGameState(e) ==
  UpdateCurrentLevel(
    [e EXCEPT !.gs = [InitialGameState EXCEPT !.currentSong = e.gs.currentSong],
              !.idx = 0]).gs

RestartGameKeepScore(e) ==
  [UpdateGameState(e, [RestartedGameState(e) EXCEPT !.score = e.gs.score])
     EXCEPT !.idx = 0, !.portals = <<>>, !.whips = <<>>, !.effects = <<>>,
            !.levelElapsed = Epoch, !.currentBeat = 0, !.beatTimer = 0]

(* a restart that leaves the whips in flight *)
RestartGameKeepWhips(e) ==
  [UpdateGameState(e, RestartedGameState(e))
     EXCEPT !.idx = 0, !.portals = <<>>, !.effects = <<>>,
            !.levelElapsed = Epoch, !.currentBeat = 0, !.beatTimer = 0]

RestartGame(e) ==
  [UpdateGameState(e, RestartedGameState(e))
     EXCEPT !.idx = 0, !.portals = <<>>, !.whips = <<>>, !.effects = <<>>,
            !.levelElapsed = Epoch, !.currentBeat = 0, !.beatTimer = 0]

-----------------------------------------------------------------------------
(* The state machine *)

Cur ==
  [gs |-> gameState, idx |-> currentLevelIndex, portals |-> portals,
   whips |-> activeWhips, effects |-> visualEffects, timers |-> timers,
   beatTimer |-> beatTimer, currentBeat |-> currentBeat,
   spawnTimer |-> portalSpawnTimer, levelElapsed |-> levelElapsed,
   obs |-> ZeroObs, now |-> used.clock, ui |-> consumer]

Install(e) ==
  /\ gameState' = e.gs
  /\ currentLevelIndex' = e.idx
  /\ portals' = e.portals
  /\ activeWhips' = e.whips
  /\ visualEffects' = e.effects
  /\ timers' = e.timers
  /\ beatTimer' = e.beatTimer
  /\ currentBeat' = e.currentBeat
  /\ portalSpawnTimer' = e.spawnTimer
  /\ levelElapsed' = e.levelElapsed
  /\ obs' = e.obs
  /\ consumer' = e.ui

(* An asset while init loads it: what its request will do (answer with a    *)
(* load, answer with an error, or stay silent), whether it has answered,    *)
(* whether its timeout has fired, whether the asset is stored, whether a    *)
(* fallback was made for it.                                                *)
Asset(outcome) ==
  [outcome |-> outcome, answered |-> FALSE, timedOut |-> FALSE,
   stored |-> FALSE, fallback |-> FALSE]

Resolved(a) == a.answered \/ a.timedOut

(* the engine after an init in which every asset loaded *)
Loaded ==
  [phase |-> "done",
   audio |-> [i \in 1..NumAudio |->
                [Asset("load") EXCEPT !.answered = TRUE, !.stored = TRUE]],
   images |-> [i \in 1..NumImages |->
                 [Asset("load") EXCEPT !.answered = TRUE, !.stored = TRUE]],
   loopStarted |-> TRUE,
   completeCalled |-> TRUE]

NoProbe ==
  [kind |-> "none", n |-> 0, beatMatch |-> FALSE, baseScore |-> 0,
   quality |-> "", value |-> 0, next |-> 0,
   target |-> <<0, 0>>, off |-> <<0, 0>>,
   pos |-> [x |-> 0, y |-> 0], posNext |-> [x |-> 0, y |-> 0],
   portalX |-> 0, portalY |-> 0, portalType |-> "", colliding |-> FALSE,
   levelA |-> 0, levelB |-> 0,
   sizeA |-> 0, sizeB |-> 0, speedA |-> 0, speedB |-> 0,
   windowA |-> 0, windowB |-> 0, utility |-> ""]

(* the engine after its constructor and init() have run, next to a        *)
(* consumer that holds the initial game state                               *)
Init ==
  /\ gameState = [InitialGameState EXCEPT
                    !.currentDifficulty = Levels[1].difficulty,
                    !.currentSong = Levels[1].music]
  /\ consumer = InitialGameState
  /\ currentLevelIndex = 0
  /\ portals = <<>>
  /\ activeWhips = <<>>
  /\ visualEffects = <<>>
  /\ timers = <<>>
  /\ beatTimer = 0
  /\ currentBeat = 0
  /\ portalSpawnTimer = 0
  /\ levelElapsed = Epoch
  /\ showSongSelect = FALSE
  /\ obs = ZeroObs
  /\ used = [clock |-> 0, events |-> 0]
  /\ probe = NoProbe
  /\ loading = Loaded

(* Date.now() moves by dt, which is negative when the system clock is set   *)
(* back; setTimeout delays do not follow a clock that is set back.          *)
(* Past TimeCap a time difference is kept at TimeCap: no state in which the *)
(* game can still be played holds a larger one.                             *)
TimeCap == MaxClock + 3000

Advance(e, dt) ==
  [e EXCEPT
     !.portals = [k \in 1..Len(@) |->
                    [@[k] EXCEPT !.untilTarget = Max(@ - dt, 0 - TimeCap)]],
     !.effects = [k \in 1..Len(@) |->
                    [@[k] EXCEPT !.remaining = Max(@ - dt, 0 - TimeCap)]],
     !.timers = [k \in 1..Len(@) |->
                   [@[k] EXCEPT !.remaining = @ - Max(dt, 0)]],
     !.levelElapsed = IF @ = Epoch THEN Epoch ELSE Min(@ + dt, TimeCap)]

(* the score a level_complete was entered with is the score at the end of   *)
(* the step that entered it                                                 *)
FixEntries(e, nOld) ==
  [e EXCEPT !.timers =
     [k \in 1..Len(@) |->
        IF k > nOld /\ @[k].kind = "proceed"
        THEN [@[k] EXCEPT !.entryScore = e.gs.score]
        ELSE @[k]]]

(* gameLoop: one animation frame, dt after the previous one, in a game     *)
(* followed for horizon ms of play, its Math.random() results in draws      *)
FrameDrawing(dt, horizon, draws) ==
  LET playing == gameState.status = "playing"
      counted == gameState.status \in {"playing", "paused"}
      beat == playing /\ BeatDue(beatTimer + dt)
      e0 == Advance(Cur, dt)
  IN /\ \A k \in 1..Len(timers) : timers[k].remaining > 0
     /\ counted => used.clock + Abs(dt) <= horizon
     /\ dt < 0 => used.events < MaxEvents
     /\ \E beatDraw \in (IF beat
                         THEN draws \cup (IF used.events < MaxEvents
                                          THEN {NoDraw} ELSE {})
                         ELSE {NoDraw}),
           rateDraw \in (IF playing /\ SpawnDue(e0, dt)
                         THEN draws ELSE {NoDraw}) :
          /\ Install(FixEntries(
                IF playing THEN Update(e0, dt, beatDraw, rateDraw) ELSE e0,
                Len(timers)))
          /\ used' = [used EXCEPT
                        !.clock = IF counted THEN @ + Abs(dt) ELSE @,
                        !.events = IF (beat /\ ~beatDraw.spawn) \/ dt < 0
                                   THEN @ + 1 ELSE @]
     /\ UNCHANGED <<showSongSelect, probe, loading>>

FrameWithin(dt, horizon) == FrameDrawing(dt, horizon, SpawnDraws)

Frame(dt) == FrameWithin(dt, MaxClock)

(* pointer click or tap: InputManager.onMouseClick / onTouchEnd *)
Fire ==
  /\ Len(activeWhips) < MaxWhips
  /\ \E target \in ClickTargets, ox \in ControlOffsets, oy \in ControlOffsets,
        cursorSpeed \in CursorSpeeds :
       Install(FireWhip(Cur, target, <<ox, oy>>, cursorSpeed, FALSE))
  /\ UNCHANGED <<showSongSelect, used, probe, loading>>

(* Space key, long press, swipe down, or the pause/resume button *)
TogglePauseKey ==
  /\ gameState.status = "playing" => used.events < MaxEvents
  /\ Install(TogglePause(Cur))
  /\ used' = [used EXCEPT
                !.events = IF gameState.status = "playing" THEN @ + 1 ELSE @]
  /\ UNCHANGED <<showSongSelect, probe, loading>>

(* R key or a restart button *)
RestartKey ==
  /\ used.events < MaxEvents
  /\ Install(RestartGame(Cur))
  /\ used' = [used EXCEPT !.events = @ + 1]
  /\ UNCHANGED <<showSongSelect, probe, loading>>

(* Game component: a mode button of the menu that opens the song list *)
OpenSongSelect ==
  /\ gameState.status = "menu"
  /\ ~showSongSelect
  /\ showSongSelect' = TRUE
  /\ obs' = ZeroObs
  /\ UNCHANGED <<gameState, currentLevelIndex, portals, activeWhips,
                 visualEffects, timers, beatTimer, currentBeat,
                 portalSpawnTimer, levelElapsed, used, probe,
                 loading, consumer>>

(* Game component: the endless-mode button, or a song of the song list; the *)
(* menu view is rendered while status is menu or the song list is open      *)
StartButton ==
  /\ gameState.status = "menu" \/ showSongSelect
  /\ Install(StartGame(Cur))
  /\ showSongSelect' = FALSE
  /\ UNCHANGED <<used, probe, loading>>

(* the due timer that fires next: earliest due time, then scheduling order *)
NextTimer ==
  CHOOSE k \in 1..Len(timers) :
    /\ timers[k].remaining <= 0
    /\ \A m \in 1..Len(timers) :
         \/ timers[m].remaining > timers[k].remaining
         \/ (timers[m].remaining = timers[k].remaining /\ m >= k)

TimerDue == \E k \in 1..Len(timers) : timers[k].remaining <= 0

WithoutTimer(e, k) ==
  [e EXCEPT !.timers = [m \in 1..(Len(@) - 1) |-> IF m < k THEN @[m] ELSE @[m + 1]]]

(* the event loop runs the callback of the next due timeout:               *)
(*   setTimeout(() => this.triggerLevelTransition(), 1000)                  *)
(*   setTimeout(() => this.proceedToNextLevel(), 3000)                      *)
RunTimeout ==
  /\ TimerDue
  /\ LET kind == timers[NextTimer].kind
         e == [WithoutTimer(Cur, NextTimer) EXCEPT !.obs.timer = kind]
     IN Install(FixEntries(IF kind = "transition"
                           THEN TriggerLevelTransition(e)
                           ELSE ProceedToNextLevel(e),
                           Len(e.timers)))
  /\ UNCHANGED <<showSongSelect, used, probe, loading>>

Next ==
  \/ \E dt \in DeltaTimes : Frame(dt)
  \/ Fire
  \/ TogglePauseKey
  \/ RestartKey
  \/ OpenSongSelect
  \/ StartButton
  \/ RunTimeout

Spec == Init /\ [][Next]_vars

(* gameLoop outside a game being played: update is not called, time passes *)
IdleFrame ==
  /\ gameState.status \notin {"playing", "paused"}
  /\ \E dt \in DeltaTimes : Frame(dt)

(* requestAnimationFrame keeps calling gameLoop in every status, and the     *)
(* event loop runs every timeout that is due                                *)
SpecLive ==
  /\ Init
  /\ [][Next]_vars
  /\ WF_vars(IdleFrame)
  /\ WF_vars(RunTimeout)

(* gameLoop while a game is being played with a whip in flight *)
PlayingTick ==
  /\ gameState.status = "playing"
  /\ activeWhips # <<>>
  /\ \E dt \in DeltaTimes : Frame(dt)

(* the condition under which PlayingTick can be taken: gameLoop runs once  *)
(* the due timeouts have run, up to the horizon                            *)
TickDue ==
  /\ gameState.status = "playing"
  /\ activeWhips # <<>>
  /\ \A k \in 1..Len(timers) : timers[k].remaining > 0
  /\ \E dt \in DeltaTimes : used.clock + Abs(dt) <= MaxClock

(* requestAnimationFrame keeps calling gameLoop while the game is played   *)
(* (weak fairness of PlayingTick, with TickDue for its enabling            *)
(* condition), and the event loop runs every timeout that is due           *)
SpecWhips ==
  /\ Init
  /\ [][Next]_vars
  /\ ([]<>(~TickDue) \/ []<><<PlayingTick>>_vars)
  /\ WF_vars(RunTimeout)

(* The same engine with up to PairWhips whips in flight, fired with slow and *)
(* fast pointer movement                                                    *)
VolleySpeeds == {0, 1500}

FireVolley ==
  /\ Len(activeWhips) < PairWhips
  /\ \E target \in ClickTargets, cursorSpeed \in VolleySpeeds :
       Install(FireWhip(Cur, target, <<0, 0>>, cursorSpeed, FALSE))
  /\ UNCHANGED <<showSongSelect, used, probe, loading>>

NextVolley ==
  \/ \E dt \in DeltaTimes : Frame(dt)
  \/ FireVolley
  \/ StartButton
  \/ RunTimeout

SpecVolley == Init /\ [][NextVolley]_vars

(* GameEngine.handleTouchEnd, the onTouchEnd callback: hasActiveTouch() is  *)
(* already false when a touch ends                                          *)
HandleTouchEnd(e, position, gesture, cursorSpeed) ==
  IF gesture = "tap" THEN FireWhip(e, position, <<0, 0>>, cursorSpeed, FALSE)
  ELSE IF gesture = "long_press" THEN TogglePause(e)
  ELSE e

(* InputManager.handleTapGesture: onMouseClick, which is fireWhip *)
HandleTapGesture(e, position, cursorSpeed) ==
  FireWhip(e, position, <<0, 0>>, cursorSpeed, FALSE)

(* InputManager.handleGesture for a gesture that is no swipe and no drag *)
HandleGesture(e, position, gesture, cursorSpeed) ==
  IF gesture = "tap" THEN HandleTapGesture(e, position, cursorSpeed) ELSE e

(* InputManager.handleTouchEnd: the touch-end callback, then the gesture    *)
(* dispatch                                                                 *)
TouchGestures == {"tap", "double_tap"}

TouchEnd ==
  /\ activeWhips = <<>>
  /\ \E position \in ClickTargets, gesture \in TouchGestures,
        cursorSpeed \in CursorSpeeds :
       Install(HandleGesture(
                 HandleTouchEnd(Cur, position, gesture, cursorSpeed),
                 position, gesture, cursorSpeed))
  /\ UNCHANGED <<showSongSelect, used, probe, loading>>

NextTouch ==
  \/ \E dt \in DeltaTimes : Frame(dt)
  \/ TouchEnd
  \/ StartButton
  \/ RunTimeout

SpecTouch == Init /\ [][NextTouch]_vars

(* The same engine followed for LongClock ms of play, with no pause and no  *)
(* restart                                                                  *)
LongFrame == \E dt \in DeltaTimes : FrameWithin(dt, LongClock)

NextLong ==
  \/ LongFrame
  \/ Fire
  \/ StartButton
  \/ RunTimeout

SpecLong == Init /\ [][NextLong]_vars

(* The long game with the R key *)
NextReplay ==
  \/ NextLong
  \/ RestartKey

SpecReplay == Init /\ [][NextReplay]_vars

(* The end of a game: the last level is being played and one hit is        *)
(* missing. The score is that of EndGameHits perfect hits on the beat in a *)
(* row, with the bonuses of the two levels completed; the level has lasted *)
(* for TimeCap or longer; the consumer has merged every update since the   *)
(* initial game state.                                                     *)
LastLevel == Len(Levels)

EndGameHits ==
  Levels[1].requiredHits + Levels[2].requiredHits
    + Levels[LastLevel].requiredHits - 1

RECURSIVE ScoreOfHits(_)
ScoreOfHits(n) ==
  IF n = 0 THEN 0
  ELSE ScoreOfHits(n - 1) + FinalScore(JudgeTiming(0, TRUE).score, n - 1)

EndGameState ==
  [status |-> "playing",
   score |-> ScoreOfHits(EndGameHits)
               + Levels[1].bonusScore + Levels[2].bonusScore,
   combo |-> EndGameHits, health |-> 100, level |-> LastLevel,
   currentSong |-> Levels[LastLevel].music, maxCombo |-> EndGameHits,
   levelProgress |->
     ((Levels[LastLevel].requiredHits - 1) * 100 * PctScale)
       \div Levels[LastLevel].requiredHits,
   portalsHit |-> Levels[LastLevel].requiredHits - 1,
   portalsTotal |-> Levels[LastLevel].requiredHits - 1,
   currentDifficulty |-> Levels[LastLevel].difficulty,
   transitionActive |-> FALSE]

InitEnd ==
  /\ gameState = EndGameState
  /\ consumer = [EndGameState EXCEPT
                   !.currentSong = InitialGameState.currentSong,
                   !.currentDifficulty = InitialGameState.currentDifficulty]
  /\ currentLevelIndex = LastLevel - 1
  /\ portals = <<>>
  /\ activeWhips = <<>>
  /\ visualEffects = <<>>
  /\ timers = <<>>
  /\ beatTimer = 0
  /\ currentBeat = 0
  /\ portalSpawnTimer = 0
  /\ levelElapsed = TimeCap
  /\ showSongSelect = FALSE
  /\ obs = ZeroObs
  /\ used = [clock |-> 0, events |-> 0]
  /\ probe = NoProbe
  /\ loading = Loaded

(* the portals of the last level are drawn with the lowest speed factor,  *)
(* which brings them under the whip when they are due                      *)
EndSpeedDraws == {0}

EndSpawnDraws ==
  [spawn : {TRUE}, type : PortalTypes, lane : LaneDraws,
   jitter : JitterDraws, speed10 : EndSpeedDraws]

EndFrame == \E dt \in DeltaTimes : FrameDrawing(dt, MaxClock, EndSpawnDraws)

(* a call of the public pauseGame, from the pause button or any other      *)
(* holder of the engine                                                    *)
PauseGameCall ==
  /\ gameState.status # "paused"
  /\ used.events < MaxEvents
  /\ Install(PauseGame(Cur))
  /\ used' = [used EXCEPT !.events = @ + 1]
  /\ UNCHANGED <<showSongSelect, probe, loading>>

(* a call of the public resumeGame *)
ResumeGameCall ==
  /\ gameState.status # "playing"
  /\ gameState.status # "paused" => used.events < MaxEvents
  /\ Install(ResumeGame(Cur))
  /\ used' = [used EXCEPT
                !.events = IF gameState.status # "paused" THEN @ + 1 ELSE @]
  /\ UNCHANGED <<showSongSelect, probe, loading>>

NextEnd ==
  \/ EndFrame
  \/ Fire
  \/ TogglePauseKey
  \/ PauseGameCall
  \/ ResumeGameCall
  \/ RestartKey
  \/ StartButton
  \/ RunTimeout

SpecEnd == InitEnd /\ [][NextEnd]_vars

(* The same engine on a machine whose clock can be set back between two     *)
(* frames: gameLoop then computes a negative deltaTime.                     *)
BackwardDeltas == {0 - 250}

BackwardFrame ==
  /\ gameState.status = "playing"
  /\ \E dt \in BackwardDeltas : Frame(dt)

NextSkew ==
  \/ Next
  \/ BackwardFrame

SpecSkew == Init /\ [][NextSkew]_vars

-----------------------------------------------------------------------------
(* The pure functions of the hit path, applied to drawn arguments: a time   *)
(* difference with a beatMatch flag, or a combo count.                      *)

BaseScores == {1500, 1200, 900, 1000, 800, 600, 400}

(* click targets and control-point displacements, (Math.random() - 0.5) *   *)
(* 200 at line 1065, of the trajectories given to getWhipCurrentPosition    *)
WhipTargets == {<<45, 50>>, <<90, 20>>, <<10, 95>>}
WhipOffsets == {0 - 100, 0 - 50, 0 - 2, 0, 3, 50, 99}

(* portals given to isWhipCollidingWithPortal: x around one hit radius from *)
(* the canvas centre, y on the middle lane, every frequency class           *)
ContactXs == {4359, 4360, 4361, 4519, 4520, 4521, 4679, 4680, 4681, 5000}
FrequencyClasses == {"bass", "snare", "hihat"}

ProbeInputs ==
  {[NoProbe EXCEPT !.kind = "timeDiff", !.n = d, !.beatMatch = bm] :
     d \in 0..MaxDiff, bm \in BOOLEAN}
  \cup {[NoProbe EXCEPT !.kind = "combo", !.n = c] : c \in 0..MaxCombo}
  \cup {[NoProbe EXCEPT !.kind = "trajectory", !.n = p, !.target = t,
                        !.off = <<ox, oy>>] :
          p \in 0..(ProgressDen - 1), t \in WhipTargets,
          ox \in WhipOffsets, oy \in WhipOffsets}
  \cup {[NoProbe EXCEPT !.kind = "contact", !.n = p,
                        !.target = <<CanvasWidth \div 2, CanvasHeight \div 2>>,
                        !.portalX = x, !.portalY = LaneYPositions[2],
                        !.portalType = c] :
          p \in 1..(ProgressDen - 1), x \in ContactXs,
          c \in FrequencyClasses}
  \cup {[NoProbe EXCEPT !.kind = "spawn", !.portalType = c,
                        !.levelA = a, !.levelB = b] :
          c \in FrequencyClasses,
          a \in 0..(Len(Levels) - 1), b \in 0..(Len(Levels) - 1)}

InitPure ==
  /\ gameState = InitialGameState
  /\ consumer = InitialGameState
  /\ currentLevelIndex = 0
  /\ portals = <<>>
  /\ activeWhips = <<>>
  /\ visualEffects = <<>>
  /\ timers = <<>>
  /\ beatTimer = 0
  /\ currentBeat = 0
  /\ portalSpawnTimer = 0
  /\ levelElapsed = Epoch
  /\ showSongSelect = FALSE
  /\ obs = ZeroObs
  /\ used = [clock |-> 0, events |-> 0]
  /\ probe \in ProbeInputs
  /\ loading = Loaded

Engine ==
  <<gameState, currentLevelIndex, portals, activeWhips, visualEffects,
    timers, beatTimer, currentBeat, portalSpawnTimer, levelElapsed,
    showSongSelect, obs, used, loading, consumer>>

(* handlePortalHit, lines 1231-1239 *)
ApplyJudgeTiming ==
  /\ probe.kind = "timeDiff"
  /\ LET j == JudgeTiming(probe.n, probe.beatMatch)
     IN probe' = [probe EXCEPT !.kind = "judged", !.quality = j.quality,
                               !.value = j.score]
  /\ UNCHANGED Engine

(* handleScore, line 1415, at a combo count and at the next one *)
ApplyComboMultiplier ==
  /\ probe.kind = "combo"
  /\ probe' = [probe EXCEPT !.kind = "multiplier",
                            !.value = ComboMultiplier100(probe.n),
                            !.next = ComboMultiplier100(probe.n + 1)]
  /\ UNCHANGED Engine

(* handleScore, lines 1415-1416 *)
ApplyFinalScore ==
  /\ probe.kind = "combo"
  /\ \E b \in BaseScores :
       probe' = [probe EXCEPT !.kind = "scored", !.baseScore = b,
                              !.value = FinalScore(b, probe.n)]
  /\ UNCHANGED Engine

(* getWhipCurrentPosition on a trajectory of fireWhip, at an               *)
(* extensionProgress and at the next tenth                                  *)
ApplyBezier ==
  /\ probe.kind = "trajectory"
  /\ LET tr == Trajectory(probe.target, probe.off)
         at(p) == GetWhipCurrentPosition100(
                    [startX |-> tr.startX, startY |-> tr.startY,
                     targetX |-> tr.targetX, targetY |-> tr.targetY,
                     controlX2 |-> tr.controlX2, controlY2 |-> tr.controlY2,
                     extensionProgress |-> p])
     IN probe' = [probe EXCEPT !.kind = "position", !.pos = at(probe.n),
                               !.posNext = at(probe.n + 1)]
  /\ UNCHANGED Engine

(* isWhipCollidingWithPortal on a whip of fireWhip and a portal of          *)
(* spawnRandomPortal                                                        *)
ApplyCollision ==
  /\ probe.kind = "contact"
  /\ LET tr == Trajectory(probe.target, probe.off)
         whip == [startX |-> tr.startX, startY |-> tr.startY,
                  targetX |-> tr.targetX, targetY |-> tr.targetY,
                  controlX2 |-> tr.controlX2, controlY2 |-> tr.controlY2,
                  extensionProgress |-> probe.n]
         portal == [x |-> probe.portalX, y |-> probe.portalY,
                    size |-> GetPortalSize(probe.portalType)]
     IN probe' = [probe EXCEPT !.kind = "contacted",
                               !.pos = GetWhipCurrentPosition100(whip),
                               !.colliding =
                                  IsWhipCollidingWithPortal(whip, portal)]
  /\ UNCHANGED Engine

(* spawnRandomPortal of one frequency class in two levels; window is       *)
(* targetTime - spawnTime                                                   *)
ApplySpawn ==
  /\ probe.kind = "spawn"
  /\ LET draw == [spawn |-> TRUE, type |-> probe.portalType, lane |-> 1,
                  jitter |-> 0, speed10 |-> 8]
         a == SpawnRandomPortal([Cur EXCEPT !.idx = probe.levelA], draw).portals[1]
         b == SpawnRandomPortal([Cur EXCEPT !.idx = probe.levelB], draw).portals[1]
     IN probe' = [probe EXCEPT !.kind = "spawned",
                               !.sizeA = a.size, !.sizeB = b.size,
                               !.speedA = a.speed, !.speedB = b.speed,
                               !.windowA = a.untilTarget,
                               !.windowB = b.untilTarget]
  /\ UNCHANGED Engine

(* the two timing tables on the same time difference *)
ApplyBothTables ==
  /\ probe.kind = "timeDiff"
  /\ probe' = [probe EXCEPT
                 !.kind = "compared",
                 !.quality = JudgeTiming(probe.n, probe.beatMatch).quality,
                 !.utility = CalculateTimingAccuracy(probe.n).quality]
  /\ UNCHANGED Engine

NextPure ==
  \/ ApplyBothTables
  \/ ApplySpawn
  \/ ApplyCollision
  \/ ApplyBezier
  \/ ApplyJudgeTiming
  \/ ApplyComboMultiplier
  \/ ApplyFinalScore

SpecPure == InitPure /\ [][NextPure]_vars

-----------------------------------------------------------------------------
(* GameEngine.init: the audio files load in parallel, then the images, then *)
(* the level system is initialised, the game loop starts and                *)
(* onLoadingComplete is called.                                             *)

Outcomes == {"load", "error", "silent"}

InitLoad ==
  /\ gameState = InitialGameState
  /\ consumer = InitialGameState
  /\ currentLevelIndex = 0
  /\ portals = <<>>
  /\ activeWhips = <<>>
  /\ visualEffects = <<>>
  /\ timers = <<>>
  /\ beatTimer = 0
  /\ currentBeat = 0
  /\ portalSpawnTimer = 0
  /\ levelElapsed = Epoch
  /\ showSongSelect = FALSE
  /\ obs = ZeroObs
  /\ used = [clock |-> 0, events |-> 0]
  /\ probe = NoProbe
  /\ \E a \in [1..NumAudio -> Outcomes], g \in [1..NumImages -> Outcomes] :
       loading = [phase |-> "audio",
                  audio |-> [i \in 1..NumAudio |-> Asset(a[i])],
                  images |-> [i \in 1..NumImages |-> Asset(g[i])],
                  loopStarted |-> FALSE,
                  completeCalled |-> FALSE]

Game ==
  <<gameState, currentLevelIndex, portals, activeWhips, visualEffects,
    timers, beatTimer, currentBeat, portalSpawnTimer, levelElapsed,
    showSongSelect, obs, used, probe, consumer>>

(* an onloaderror that rejects the promise of its file *)
OnAudioErrorReject(l, i) ==
  [l EXCEPT !.audio[i].answered = TRUE,
            !.phase = IF @ = "audio" THEN "aborted" ELSE @]

(* Howl onloaderror: clearTimeout, warn, resolve *)
OnAudioError(l, i) == [l EXCEPT !.audio[i].answered = TRUE]

(* Howl onload *)
AudioLoaded(i) ==
  /\ loading.phase # "aborted"
  /\ loading.audio[i].outcome = "load"
  /\ ~loading.audio[i].answered
  /\ loading' = [loading EXCEPT !.audio[i].answered = TRUE,
                                !.audio[i].stored = TRUE]
  /\ UNCHANGED Game

AudioFailed(i) ==
  /\ loading.phase # "aborted"
  /\ loading.audio[i].outcome = "error"
  /\ ~loading.audio[i].answered
  /\ loading' = OnAudioError(loading, i)
  /\ UNCHANGED Game

(* the 5 s timeout of loadAudioFile, which onload and onloaderror clear *)
AudioTimedOut(i) ==
  /\ ~loading.audio[i].answered
  /\ ~loading.audio[i].timedOut
  /\ loading' = [loading EXCEPT !.audio[i].timedOut = TRUE]
  /\ UNCHANGED Game

(* await Promise.all of the audio loads; loadAssets creates the images *)
StartImages ==
  /\ loading.phase = "audio"
  /\ \A i \in 1..NumAudio : Resolved(loading.audio[i])
  /\ loading' = [loading EXCEPT !.phase = "images"]
  /\ UNCHANGED Game

(* img.onload *)
ImageLoaded(i) ==
  /\ loading.phase \in {"images", "done"}
  /\ loading.images[i].outcome = "load"
  /\ ~loading.images[i].answered
  /\ loading' = [loading EXCEPT !.images[i].answered = TRUE,
                                !.images[i].stored = TRUE]
  /\ UNCHANGED Game

(* img.onerror *)
ImageFailed(i) ==
  /\ loading.phase \in {"images", "done"}
  /\ loading.images[i].outcome = "error"
  /\ ~loading.images[i].answered
  /\ loading' = [loading EXCEPT !.images[i].answered = TRUE,
                                !.images[i].fallback = TRUE]
  /\ UNCHANGED Game

(* the 3 s timeout of loadAssets *)
ImageTimedOut(i) ==
  /\ loading.phase \in {"images", "done"}
  /\ ~loading.images[i].answered
  /\ ~loading.images[i].timedOut
  /\ loading' = [loading EXCEPT !.images[i].timedOut = TRUE,
                                !.images[i].fallback = TRUE]
  /\ UNCHANGED Game

(* the rest of init: initializeLevelSystem, gameLoop, onLoadingComplete *)
FinishInit ==
  /\ loading.phase = "images"
  /\ \A i \in 1..NumImages : Resolved(loading.images[i])
  /\ loading' = [loading EXCEPT !.phase = "done", !.loopStarted = TRUE,
                                !.completeCalled = TRUE]
  /\ Install(InitializeLevelSystem(Cur))
  /\ UNCHANGED <<showSongSelect, used, probe>>

NextLoad ==
  \/ \E i \in 1..NumAudio : AudioLoaded(i)
  \/ \E i \in 1..NumAudio : AudioFailed(i)
  \/ \E i \in 1..NumAudio : AudioTimedOut(i)
  \/ StartImages
  \/ \E i \in 1..NumImages : ImageLoaded(i)
  \/ \E i \in 1..NumImages : ImageFailed(i)
  \/ \E i \in 1..NumImages : ImageTimedOut(i)
  \/ FinishInit

(* events that are due are delivered and promise continuations run *)
SpecLoad == InitLoad /\ [][NextLoad]_vars /\ WF_vars(NextLoad)

-----------------------------------------------------------------------------
(* Properties *)

(* C1: a delayed proceed-to-next-level callback that runs while status is   *)
(* not level_complete (for instance after a restart to menu) is a no-op:    *)
(* status, score, level, level index and the portal, whip and effect        *)
(* collections are left unchanged.                                          *)
StaleProceedIsNoOp ==
  [][(obs'.timer = "proceed" /\ gameState.status # "level_complete")
       => /\ gameState'.status = gameState.status
          /\ gameState'.score = gameState.score
          /\ gameState'.level = gameState.level
          /\ currentLevelIndex' = currentLevelIndex
          /\ portals' = portals
          /\ activeWhips' = activeWhips
          /\ visualEffects' = visualEffects]_vars

(* C2: over its whole lifetime a whip registers at most one scoring hit,    *)
(* also when several active portals are within hit radius in one pass.      *)
SingleHitWhips ==
  \A k \in 1..Len(activeWhips) : activeWhips[k].hits <= 1

(* C3: a step in which a whip-portal collision is judged miss (and no       *)
(* collision scores) leaves score unchanged, sets combo to 0 and lowers     *)
(* health by exactly 1, never below 0.                                      *)
MissPenalty ==
  [][(obs'.misses = 1 /\ obs'.hits = 0)
       => /\ gameState'.score = gameState.score
          /\ gameState'.combo = 0
          /\ gameState'.health = Max(gameState.health - 1, 0)]_vars

(* C5: the live timing judgement, for every time difference up to MaxDiff   *)
(* and both beatMatch values: beatMatch gives perfect/1500 up to 30 ms,     *)
(* great/1200 up to 60 ms, good/900 up to 100 ms; without beatMatch         *)
(* perfect/1000, great/800, good/600 and hit/400 up to 200 ms; above 200 ms *)
(* miss/0.                                                                  *)
TimingTable ==
  probe.kind = "judged" =>
    LET d == probe.n
        bm == probe.beatMatch
        r == <<probe.quality, probe.value>>
    IN /\ (bm /\ d <= 30) => r = <<"perfect", 1500>>
       /\ (bm /\ d > 30 /\ d <= 60) => r = <<"great", 1200>>
       /\ (bm /\ d > 60 /\ d <= 100) => r = <<"good", 900>>
       /\ (~bm /\ d <= 30) => r = <<"perfect", 1000>>
       /\ (~bm /\ d > 30 /\ d <= 60) => r = <<"great", 800>>
       /\ (~bm /\ d > 60 /\ d <= 100) => r = <<"good", 600>>
       /\ (~bm /\ d > 100 /\ d <= 200) => r = <<"hit", 400>>
       /\ d > 200 => r = <<"miss", 0>>

TimingTableWitness ==
  /\ probe.kind = "judged"
  /\ probe.n = 150
  /\ ~probe.beatMatch
  /\ probe.quality = "hit"
  /\ probe.value = 400

(* C6: a step with one scoring hit of base score b taken at combo c adds    *)
(* exactly floor(b * min(1 + 0.02 * c, 3)) to score and 1 to combo.         *)
ScoreRule ==
  [][obs'.hits = 1
       => /\ gameState'.score = gameState.score
               + (obs'.base * Min(100 + 2 * obs'.combo, 300)) \div 100
          /\ gameState'.combo = gameState.combo + 1]_vars

(* C7: the combo multiplier is non-decreasing in combo, never exceeds 3,    *)
(* and equals exactly 3 at combo 100 and above.                             *)
MultiplierMonotoneCapped ==
  probe.kind = "multiplier" =>
    /\ probe.value <= probe.next
    /\ probe.value <= 300
    /\ probe.n >= 100 => probe.value = 300

MultiplierWitness ==
  /\ probe.kind = "multiplier"
  /\ probe.n = 100
  /\ probe.value = 300
  /\ probe.next = 300

(* C8: while status is playing, a step whose hit brings portalsHit to at    *)
(* least the current level's requiredHits ends with status level_complete.  *)
HitCompletesLevel ==
  [][(/\ gameState.status = "playing"
      /\ obs'.hits > 0
      /\ HasLevel(currentLevelIndex)
      /\ gameState'.portalsHit
            >= GetCurrentLevel(currentLevelIndex).requiredHits)
       => gameState'.status = "level_complete"]_vars

HitCompletesLevelWitness ==
  /\ obs.hits > 0
  /\ gameState.portalsHit = GetCurrentLevel(currentLevelIndex).requiredHits
  /\ gameState.status = "level_complete"
  /\ \E k \in 1..Len(timers) : timers[k].kind = "proceed"

(* C9: if level_complete is entered at level L with score S, then when the  *)
(* delayed callback runs the state has level = L + 1 and score = S +        *)
(* bonusScore(L), and status is playing if a further level is defined,      *)
(* otherwise gameover.                                                      *)
ProceedFromEntry ==
  [][obs'.timer = "proceed"
       => LET t == timers[NextTimer]
          IN /\ gameState'.level = t.entryLevel + 1
             /\ gameState'.score
                  = t.entryScore + GetCurrentLevel(t.entryIdx).bonusScore
             /\ gameState'.status
                  = IF t.entryIdx + 1 < Len(Levels) THEN "playing"
                    ELSE "gameover"]_vars

(* C10: the start action taken in status menu ends in status playing with   *)
(* score 0, combo 0, health 100, portalsHit 0, portalsTotal 0,              *)
(* levelProgress 0 and empty portal, whip and effect collections.           *)
StartFromMenu ==
  [][(gameState.status = "menu" /\ StartButton)
       => /\ gameState'.status = "playing"
          /\ gameState'.score = 0
          /\ gameState'.combo = 0
          /\ gameState'.health = 100
          /\ gameState'.portalsHit = 0
          /\ gameState'.portalsTotal = 0
          /\ gameState'.levelProgress = 0
          /\ portals' = <<>>
          /\ activeWhips' = <<>>
          /\ visualEffects' = <<>>]_vars

(* a game started from the menu that a restart led back to *)
StartFromMenuWitness ==
  /\ gameState.status = "playing"
  /\ levelElapsed = 0
  /\ currentLevelIndex = 0
  /\ obs = ZeroObs
  /\ used.events = 1
  /\ used.clock >= 2500
  /\ activeWhips = <<>>
  /\ gameState.score = 0

(* C11: the pause toggle only moves playing to paused and paused to playing *)
(* and changes nothing else; a frame taken while status is paused changes   *)
(* no portal (its targetTime included), no whip, neither beat timer nor     *)
(* beat counter nor spawn timer, and no field of the game state, so that    *)
(* resuming continues from the state the game was paused in.                *)
PauseFreezes ==
  [][/\ TogglePauseKey
          => /\ gameState' =
                  [gameState EXCEPT !.status =
                     IF @ = "playing" THEN "paused"
                     ELSE IF @ = "paused" THEN "playing" ELSE @]
             /\ UNCHANGED <<currentLevelIndex, portals, activeWhips,
                            visualEffects, timers, beatTimer, currentBeat,
                            portalSpawnTimer, levelElapsed>>
     /\ \A dt \in DeltaTimes :
          (gameState.status = "paused" /\ Frame(dt))
            => /\ gameState' = gameState
               /\ portals' = [k \in 1..Len(portals) |->
                                [portals[k] EXCEPT !.untilTarget = @ - dt]]
               /\ UNCHANGED <<currentLevelIndex, activeWhips, beatTimer,
                              currentBeat, portalSpawnTimer>>]_vars

(* paused with a whip in flight and a portal whose targetTime is nearer     *)
(* than its moves account for: frames have passed since the pause           *)
PauseFreezesWitness ==
  /\ gameState.status = "paused"
  /\ Len(activeWhips) > 0
  /\ \E k \in 1..Len(portals) :
       (2000 - portals[k].untilTarget) * portals[k].horizontalSpeed
         > 1000 * (portals[k].x + 1000) + 250 * portals[k].horizontalSpeed

(* C12: the proceed callback that moves level_complete to playing leaves    *)
(* portalsHit = 0, portalsTotal = 0, and empty portal and whip collections. *)
NextLevelStartsClean ==
  [][(/\ obs'.timer = "proceed"
      /\ gameState.status = "level_complete"
      /\ gameState'.status = "playing")
       => /\ gameState'.portalsHit = 0
          /\ gameState'.portalsTotal = 0
          /\ portals' = <<>>
          /\ activeWhips' = <<>>]_vars

(* C13: after every step no moving portal of the collection has x > 1.2,    *)
(* hit or not; and every portal of the collection either was in it before   *)
(* the step or was spawned in the step (its id is not older than the step), *)
(* so that a portal once removed never comes back.                          *)
PortalCleanup ==
  [][\A k \in 1..Len(portals') :
       /\ portals'[k].isMoving => portals'[k].x <= 12000
       /\ \/ \E m \in 1..Len(portals) : portals[m].id = portals'[k].id
          \/ portals'[k].id >= 2 * used.clock]_vars

(* no hit so far, no beat spawn skipped, and the first portal of the game   *)
(* (spawned at 250 ms) has left the collection: it went off-screen          *)
PortalCleanupWitness ==
  /\ gameState.status = "playing"
  /\ gameState.portalsTotal = 0
  /\ used.events = 0
  /\ used.clock >= 5000
  /\ Len(portals) > 0
  /\ \A k \in 1..Len(portals) : portals[k].id > 501 /\ portals[k].x <= 12000

(* extensionProgress gained in a frame of dt ms: deltaTime * 2 *)
ProgressGain(dt) == (dt * 2 * ProgressDen) \div 1000

(* C14: while playing, a tick raises the extensionProgress of every whip    *)
(* below 1 by exactly 2 * deltaTime, clamped at 1, and that whip, clamped   *)
(* or not, is still in the collection at the end of the tick.               *)
WhipExtension ==
  [][\A dt \in DeltaTimes :
       (gameState.status = "playing" /\ Frame(dt))
         => \A k \in 1..Len(activeWhips) :
              activeWhips[k].extensionProgress < ProgressDen
                => \E m \in 1..Len(activeWhips') :
                     activeWhips'[m].extensionProgress
                       = Min(activeWhips[k].extensionProgress + ProgressGain(dt),
                             ProgressDen)]_vars

(* C14, amended: while playing, a tick raises the extensionProgress of      *)
(* every whip by exactly 2 * deltaTime; a whip that reaches 1 is removed in *)
(* that same tick, the others stay, in order; no whip of the collection     *)
(* ever shows progress 1.                                                   *)
WhipExtensionSameTick ==
  [][\A dt \in DeltaTimes :
       (gameState.status = "playing" /\ Frame(dt))
         => LET live == SelectSeq(activeWhips,
                          LAMBDA w : w.extensionProgress + ProgressGain(dt)
                                       < ProgressDen)
            IN /\ Len(activeWhips') = Len(live)
               /\ \A k \in 1..Len(live) :
                    activeWhips'[k].extensionProgress
                      = live[k].extensionProgress + ProgressGain(dt)
               /\ \A k \in 1..Len(activeWhips') :
                    activeWhips'[k].extensionProgress < ProgressDen]_vars

(* two frames after a click its whip has left the collection *)
WhipExtensionWitness ==
  /\ gameState.status = "playing"
  /\ activeWhips = <<>>
  /\ obs.hits = 0
  /\ \E k \in 1..Len(visualEffects) :
       /\ visualEffects[k].type = "wave_trail"
       /\ visualEffects[k].remaining = 500

(* C15: a frame with a negative deltaTime, taken while playing, lowers no   *)
(* portal x, no whip extensionProgress, and neither beat timer nor spawn    *)
(* timer.                                                                   *)
NegativeDeltaClamped ==
  [][\A dt \in BackwardDeltas :
       (gameState.status = "playing" /\ Frame(dt))
         => /\ beatTimer' >= beatTimer
            /\ portalSpawnTimer' >= portalSpawnTimer
            /\ \A k \in 1..Len(portals) : \A m \in 1..Len(portals') :
                 portals'[m].id = portals[k].id => portals'[m].x >= portals[k].x
            /\ \A k \in 1..Len(activeWhips) :
                 \E m \in 1..Len(activeWhips') :
                   activeWhips'[m].extensionProgress
                     >= activeWhips[k].extensionProgress]_vars

(* C16: whatever each audio and image file does (loads, fails, or never     *)
(* answers until its timeout), init eventually finishes loading, starts the *)
(* game loop and calls onLoadingComplete.                                   *)
LoadingCompletes ==
  <>(/\ loading.phase = "done"
     /\ loading.loopStarted
     /\ loading.completeCalled)

(* init finished although an audio file never answered and an image failed *)
LoadingCompletesWitness ==
  /\ loading.phase = "done"
  /\ loading.completeCalled
  /\ \E i \in 1..NumAudio :
       loading.audio[i].outcome = "silent" /\ ~loading.audio[i].stored
  /\ \E i \in 1..NumImages :
       loading.images[i].outcome = "error" /\ loading.images[i].fallback

(* C17: the Bezier position of a whip is its start at t = 0 and its end at  *)
(* t = 1, and on every trajectory fireWhip creates each coordinate moves    *)
(* from its start value towards its end value, never backwards, as t grows. *)
BezierMonotone ==
  probe.kind = "position" =>
    LET tr == Trajectory(probe.target, probe.off)
        den2 == ProgressDen * ProgressDen
    IN /\ probe.n = 0 =>
            /\ probe.pos.x = den2 * tr.startX
            /\ probe.pos.y = den2 * tr.startY
       /\ probe.n + 1 = ProgressDen =>
            /\ probe.posNext.x = den2 * tr.targetX
            /\ probe.posNext.y = den2 * tr.targetY
       /\ tr.startX <= tr.targetX => probe.pos.x <= probe.posNext.x
       /\ tr.startX >= tr.targetX => probe.pos.x >= probe.posNext.x
       /\ tr.startY <= tr.targetY => probe.pos.y <= probe.posNext.y
       /\ tr.startY >= tr.targetY => probe.pos.y >= probe.posNext.y

(* C18: whenever the status is level_complete, it later becomes playing or  *)
(* gameover: the game does not stay in level_complete forever.              *)
LevelCompleteEnds ==
  (gameState.status = "level_complete")
    ~> (gameState.status \in {"playing", "gameover"})

(* the proceedToNextLevel timeout of a level_complete has run and the game  *)
(* is playing the next level                                                *)
LevelCompleteEndsWitness ==
  /\ obs.timer = "proceed"
  /\ gameState.status = "playing"
  /\ gameState.level = 2
  /\ currentLevelIndex = 1

(* C19: a beat-match portal whose collision is more than 100 ms from its    *)
(* target time is judged miss with score 0.                                 *)
BeatMatchLateIsMiss ==
  (probe.kind = "judged" /\ probe.beatMatch /\ probe.n > 100) =>
    (probe.quality = "miss" /\ probe.value = 0)

(* C20: every moving portal in the collection is active exactly when its x  *)
(* is strictly between 0.3 and 0.7 and approach otherwise, its beatMatch is *)
(* true exactly when it is active, and no portal given to handlePortalHit   *)
(* has beatMatch false.                                                     *)
ActiveBand ==
  /\ \A k \in 1..Len(portals) :
       portals[k].isMoving =>
         /\ portals[k].position \in {"active", "approach"}
         /\ portals[k].position = "active" <=>
              (portals[k].x > 3000 /\ portals[k].x < 7000)
         /\ portals[k].beatMatch <=> portals[k].position = "active"
  /\ obs.offBeat = 0

(* a tick resolved a hit and left an active and an approach portal *)
ActiveBandWitness ==
  /\ obs.hits > 0
  /\ \E k \in 1..Len(portals) :
       portals[k].position = "active" /\ portals[k].beatMatch
  /\ \E k \in 1..Len(portals) :
       portals[k].position = "approach" /\ ~portals[k].beatMatch

(* C21: a portal that has been active is never approach again, and a portal *)
(* leaves the collection only in a tick that resolves a hit or moves it     *)
(* off-screen, or when a new game or level resets the whole collection.     *)
PortalLifecycle ==
  [][\A k \in 1..Len(portals) :
       /\ \A m \in 1..Len(portals') :
            (portals'[m].id = portals[k].id /\ portals[k].position = "active")
              => portals'[m].position # "approach"
       /\ (\A m \in 1..Len(portals') : portals'[m].id # portals[k].id)
            => \/ portals' = <<>>
               \/ obs'.hits > 0
               \/ \E dt \in DeltaTimes : MovePortal(portals[k], dt).x > 12000]_vars

CueCategory(n) ==
  IF n % 4 = 0 THEN "bass" ELSE IF n % 2 = 0 THEN "snare" ELSE "hihat"

CategoryChance10(c) == IF c = "bass" THEN 8 ELSE IF c = "snare" THEN 6 ELSE 3

PortalIds(ps) == {ps[k].id : k \in 1..Len(ps)}

(* C24: in a playing tick the rate-based path adds exactly one portal when  *)
(* its timer has reached 1 / spawnRate seconds, and then restarts the timer *)
(* at 0, whether or not the beat path spawned; the beat path adds at most   *)
(* one portal and only on a beat rollover; no tick adds more than two.      *)
BothSpawnPaths ==
  [][\A dt \in DeltaTimes :
       (Frame(dt) /\ gameState.status = "playing") =>
         LET added == Cardinality(PortalIds(portals') \ PortalIds(portals))
             rate == (portalSpawnTimer + dt)
                       * Levels[currentLevelIndex + 1].spawnRate10 >= 10000
             beat == beatTimer + dt >= BeatInterval
         IN /\ rate => added \in {1, 2} /\ portalSpawnTimer' = 0
            /\ ~rate => added \in {0, 1} /\ portalSpawnTimer' = portalSpawnTimer + dt
            /\ ~beat => added = (IF rate THEN 1 ELSE 0)
            /\ added <= 2]_vars

(* a tick in which the beat path and the rate-based path both spawned *)
BothSpawnPathsWitness ==
  /\ gameState.status = "playing"
  /\ portalSpawnTimer = 0
  /\ beatTimer = 0
  /\ \E k, m \in 1..Len(portals), dt \in DeltaTimes :
       /\ portals[k].id = 2 * (used.clock - dt)
       /\ portals[m].id = 2 * (used.clock - dt) + 1
       /\ portals[m].x < portals[k].x

(* C25: a whip collides with a portal exactly when the distance between the *)
(* whip head and the portal centre, in screen pixels, is at most 0.8 times  *)
(* the portal size times the screen width, the boundary included.           *)
HitRadiusInclusive ==
  probe.kind = "contacted" =>
    LET dx == probe.pos.x - probe.portalX
        dy == probe.pos.y - probe.portalY
        r == (GetPortalSize(probe.portalType) * CanvasWidth * 8) \div 1000
    IN probe.colliding <=> (dx * dx + dy * dy <= r * r)

(* C26: after each playing tick, levelProgress is the greater of            *)
(* portalsHit / requiredHits * 100 and elapsed / timeLimit * 100 * 0.7 of   *)
(* the current level, capped at 100.                                        *)
LevelProgressRule ==
  [][\A dt \in DeltaTimes :
       (FrameWithin(dt, LongClock) /\ gameState.status = "playing") =>
         LET lvl == Levels[currentLevelIndex' + 1]
             hit == (gameState'.portalsHit * 100 * PctScale) \div lvl.requiredHits
             time07 == levelElapsed' * ((7 * PctScale) \div (100 * lvl.timeLimit))
         IN gameState'.levelProgress
              = Min(Max(hit, time07), 100 * PctScale)]_vars

(* C27: once a game has been started, the portal collection, the whip       *)
(* collection and the GameState record change only in a simulation tick:    *)
(* no input event and no timer callback changes them.                       *)
SingleWriter ==
  [][(\/ portals' # portals
      \/ activeWhips' # activeWhips
      \/ gameState' # gameState)
       => \/ \E dt \in DeltaTimes : Frame(dt)
          \/ StartButton]_vars

(* C28: two portals of the same frequency class, spawned in any two levels, *)
(* have equal size and equal speed, and every portal has targetTime after   *)
(* spawnTime.                                                               *)
ClassDeterminesSizeAndSpeed ==
  probe.kind = "spawned" =>
    /\ probe.sizeA = probe.sizeB
    /\ probe.speedA = probe.speedB
    /\ probe.windowA > 0
    /\ probe.windowB > 0

QualityRank(q) ==
  CASE q = "perfect" -> 4
    [] q = "great" -> 3
    [] q = "good" -> 2
    [] q = "hit" -> 1
    [] OTHER -> 0

(* C29: for every time difference and either beatMatch value, the quality   *)
(* of the live hit path is at least as good as the quality                  *)
(* calculateTimingAccuracy gives for the same difference.                   *)
LiveTableMoreForgiving ==
  probe.kind = "compared" =>
    QualityRank(probe.quality) >= QualityRank(probe.utility)

(* a difference the utility calls a miss and the live path a hit, and one   *)
(* both tables can be compared on for a beat-match portal                   *)
LiveTableMoreForgivingWitness ==
  /\ probe.kind = "compared"
  /\ probe.n > 100
  /\ probe.beatMatch
  /\ probe.quality = "hit"
  /\ probe.utility = "miss"

(* C30: a touch tap while playing adds exactly one whip. *)
OneWhipPerTap ==
  [][(TouchEnd /\ gameState.status = "playing")
       => Len(activeWhips') = Len(activeWhips) + 1]_vars

(* C31: whenever the status is level_complete, portalsHit is at least the   *)
(* requiredHits of the current level.                                       *)
CompleteMeansEnoughHits ==
  gameState.status = "level_complete" =>
    /\ HasLevel(currentLevelIndex)
    /\ gameState.portalsHit >= Levels[currentLevelIndex + 1].requiredHits

(* C32: the level index changes only by a restart, which sets it to 0, or   *)
(* by one step up out of a level_complete; it never exceeds the number of   *)
(* levels, and gameState.level is always the level index plus one.          *)
LevelIndexDiscipline ==
  [][/\ currentLevelIndex' # currentLevelIndex =>
          \/ currentLevelIndex' = 0
          \/ /\ currentLevelIndex' = currentLevelIndex + 1
             /\ gameState.status = "level_complete"
     /\ currentLevelIndex' <= Len(Levels)
     /\ gameState'.level = currentLevelIndex' + 1]_vars

(* C33: in status menu the score, combo and maxCombo are 0, health is 100,  *)
(* level is 1, the level index is 0, portalsHit is 0 and there are no       *)
(* portals and no whips.                                                    *)
MenuIsClean ==
  gameState.status = "menu" =>
    /\ gameState.score = 0
    /\ gameState.combo = 0
    /\ gameState.maxCombo = 0
    /\ gameState.health = 100
    /\ gameState.level = 1
    /\ currentLevelIndex = 0
    /\ gameState.portalsHit = 0
    /\ portals = <<>>
    /\ activeWhips = <<>>

(* the menu after a restart out of a completed level, the timeout of the    *)
(* level transition still pending                                           *)
MenuIsCleanWitness ==
  /\ gameState.status = "menu"
  /\ used.events = 1
  /\ used.clock >= 6000
  /\ timers # <<>>

(* C34: a portal is scored at most once: in every playing tick the number   *)
(* of scoring hits and the rise of portalsHit both equal the number of      *)
(* portals that left the collection without going off-screen.               *)
OneHitPerPortal ==
  [][\A dt \in DeltaTimes :
       (Frame(dt) /\ gameState.status = "playing") =>
         LET offScreen == {portals[k].id : k \in
                             {m \in 1..Len(portals) :
                                MovePortal(portals[m], dt).x > 12000}}
             byHit == (PortalIds(portals) \ PortalIds(portals')) \ offScreen
         IN /\ obs'.hits = Cardinality(byHit)
            /\ gameState'.portalsHit = gameState.portalsHit + Cardinality(byHit)]_vars

(* two whips over the same portal in one collision pass: the first scored   *)
(* it, the second, still hit-enabled, did not                               *)
OneHitPerPortalWitness ==
  /\ obs.hits = 1
  /\ Len(activeWhips) = 2
  /\ activeWhips[1].hits = 1
  /\ activeWhips[2].hits = 0
  /\ activeWhips[2].hitDetection
  /\ activeWhips[1].extensionProgress = activeWhips[2].extensionProgress

(* C35: levelProgress is always between 0 and 100. *)
LevelProgressBounded ==
  /\ gameState.levelProgress >= 0
  /\ gameState.levelProgress <= 100 * PctScale

(* C36: a fire input received while the status is not playing creates no   *)
(* whip and no effect and changes nothing of the game; a whip is only ever *)
(* added to the collection by a step taken in status playing.              *)
WhipCreatedTimes(ws) == {ws[i].createdTime : i \in 1..Len(ws)}

FireOnlyWhilePlaying ==
  [][/\ (obs'.fired > 0 /\ gameState.status # "playing") =>
          UNCHANGED <<gameState, currentLevelIndex, portals, activeWhips,
                      visualEffects, timers, beatTimer, currentBeat,
                      portalSpawnTimer, levelElapsed, showSongSelect>>
     /\ gameState.status # "playing" =>
          /\ Len(activeWhips') <= Len(activeWhips)
          /\ WhipCreatedTimes(activeWhips') \subseteq
               WhipCreatedTimes(activeWhips)]_vars

FireOnlyWhilePlayingWitness ==
  /\ obs.fired = 1
  /\ gameState.status = "paused"
  /\ activeWhips = <<>>
  /\ portals # <<>>

(* C37: the partial updates passed to onGameStateChange are complete: the  *)
(* copy of a consumer that started from the initial game state and merged  *)
(* every update equals the game state of the engine, field by field, after *)
(* every operation of the engine.                                          *)
EmittedStreamComplete ==
  [][consumer' = gameState']_vars

(* C38: in every state maxCombo >= combo >= 0, and no step other than a    *)
(* restart lowers maxCombo or the score.                                   *)
ComboAndScoreMonotone ==
  [][/\ gameState.maxCombo >= gameState.combo
     /\ gameState.combo >= 0
     /\ gameState'.maxCombo >= gameState'.combo
     /\ gameState'.combo >= 0
     /\ ~RestartKey =>
          /\ gameState'.maxCombo >= gameState.maxCombo
          /\ gameState'.score >= gameState.score]_vars

ComboAndScoreMonotoneWitness ==
  /\ gameState.combo > 1
  /\ gameState.maxCombo = gameState.combo
  /\ gameState.score > 0
  /\ obs.hits = 1
  /\ obs.misses = 1

(* C39: gameover is terminal until restart: from status gameover every     *)
(* step leaves the status gameover, except a restart, which leads to menu. *)
GameoverTerminal ==
  [][gameState.status = "gameover" =>
       \/ gameState'.status = "gameover"
       \/ RestartKey /\ gameState'.status = "menu"]_vars

(* C40: every whip in the collection is active with a progress of at least *)
(* 0 and below 1, and while the game goes on being played with ticks of a  *)
(* positive deltaTime a whip in flight leaves the collection after         *)
(* finitely many ticks (ticks are followed up to the horizon MaxClock).    *)
HorizonReached == \A dt \in DeltaTimes : used.clock + dt > MaxClock

====
